---- MODULE Spec2Model ----
(***************************************************************************)
(* The grid-editing widget of kakebo (src/tui/table.rs, src/tui/editor.rs, *)
(* src/parse.rs) as a state machine, with the Receive command of           *)
(* src/main.rs and amount_in_interval of                                   *)
(* src/expenses/recurring_expense.rs as state machines of their own.       *)
(*                                                                         *)
(* A Rust String is a sequence of characters; a character is a one-token   *)
(* TLA+ string.  Option<T> is a sequence of at most one element: <<>> is   *)
(* None, <<x>> is Some(x).  Indices are 0-based as in the source; the      *)
(* sequences that hold rows and cells are 1-based, hence the +1.           *)
(***************************************************************************)
EXTENDS Integers, Sequences, FiniteSets, TLC

VARIABLES
    data,                  \* StatefulTable.data : TableData
    pos,                   \* StatefulTable.pos : TablePosition
    editor,                \* StatefulTable.editor : Editor
    fixed_rows_number,     \* StatefulTable.fixed_rows_number
    editable_columns,      \* StatefulTable.editable_columns
    editable_total_fields, \* StatefulTable.editable_total_fields
    status,                \* "running", "exited" (open_widget left its loop) or "panicked"
    last,                  \* what the last handled action did: its name, the calls of on_save, ...
    edit_start,            \* Some(grid, cursor, clipboard) as they were when the edit session began
    steps,                 \* number of input events handled so far
    expenses,              \* the stored Expenses that a command of main.rs works on
    frame                  \* Some(local variables) of the command or method that is running

vars == <<data, pos, editor, fixed_rows_number, editable_columns,
          editable_total_fields, status, last, edit_start, steps, expenses, frame>>

----------------------------------------------------------------------------
(* Bounds of the model. *)

\* the widget is followed through this many input events
MaxSteps == 5

----------------------------------------------------------------------------
(* Program constants. *)

NUMBER_OF_BUTTONS == 3
I32_MAX == 2147483647
I32_MIN == -I32_MAX - 1

BUTTON_ACTIONS == <<"AddRow", "RemoveRow", "Exit">>

----------------------------------------------------------------------------
(* Strings. *)

None == <<>>
Some(x) == <<x>>

Min(a, b) == IF a < b THEN a ELSE b

Digits == <<"0", "1", "2", "3", "4", "5", "6", "7", "8", "9">>
IsDigit(c) == \E i \in 1..10 : Digits[i] = c
DigitVal(c) == (CHOOSE i \in 1..10 : Digits[i] = c) - 1

\* "ue" stands for a character whose UTF-8 encoding takes two bytes
WideChars == {"ue"}
ByteLen(c) == IF c \in WideChars THEN 2 ELSE 1

\* str::len : the length in bytes
RECURSIVE len(_)
len(s) == IF s = <<>> THEN 0 ELSE ByteLen(Head(s)) + len(Tail(s))

\* s.chars().take(n) and s.chars().skip(n)
chars_take(s, n) == IF n <= 0 THEN <<>> ELSE SubSeq(s, 1, Min(n, Len(s)))
chars_skip(s, n) == IF n >= Len(s) THEN <<>> ELSE SubSeq(s, n + 1, Len(s))

\* a + b in i32 as a release build computes it (two's complement wrap-around);
\* no intermediate result leaves the 32-bit range
wrapping_add(a, b) ==
    IF b > 0 /\ a > I32_MAX - b THEN (a - I32_MAX - 1) + (b + I32_MIN)
    ELSE IF b < 0 /\ a < I32_MIN - b THEN (a - I32_MIN) + (b - I32_MIN)
    ELSE a + b

RECURSIVE wrapping_mul(_, _)
\* a * n in i32 for n >= 0, wrapping around in the same way
wrapping_mul(a, n) ==
    IF n = 0 THEN 0
    ELSE IF a <= I32_MAX \div n /\ a >= -(I32_MAX \div n) THEN a * n
    ELSE wrapping_add(wrapping_mul(a, n - 1), a)

----------------------------------------------------------------------------
(* TablePosition *)

Name == [kind |-> "Name", col |-> 0, row |-> 0]
RowName(r) == [kind |-> "RowName", col |-> 0, row |-> r]
Data(c, r) == [kind |-> "Data", col |-> c, row |-> r]
TotalRow(c) == [kind |-> "TotalRow", col |-> c, row |-> 0]
Button(i) == [kind |-> "Button", col |-> i, row |-> 0]

----------------------------------------------------------------------------
(* TableData *)

cols(d) == Len(d.col_names)
rows(d) == Len(d.row_names)

RECURSIVE ColumnSum(_, _, _, _)
\* the sum of the cells i..Len(cells) (1-based) that lie in column c of n columns
ColumnSum(cells, n, c, i) ==
    IF i > Len(cells) THEN 0
    ELSE wrapping_add(IF (i - 1) % n = c THEN cells[i] ELSE 0, ColumnSum(cells, n, c, i + 1))

\* new that turns down only too few cells
TableData_new_takes_more(name, col_names, row_names, cells) ==
    IF Len(col_names) * Len(row_names) > Len(cells) THEN None
    ELSE Some([name |-> name,
               col_names |-> col_names,
               row_names |-> row_names,
               data |-> cells,
               total_row |-> [c \in 1..Len(col_names) |->
                                ColumnSum(cells, Len(col_names), c - 1, 1)]])

\* new that leaves total_row at the zeros it starts the sums from
TableData_new_zero_totals(name, col_names, row_names, cells) ==
    IF Len(col_names) * Len(row_names) # Len(cells) THEN None
    ELSE Some([name |-> name,
               col_names |-> col_names,
               row_names |-> row_names,
               data |-> cells,
               total_row |-> [c \in 1..Len(col_names) |-> 0]])

TableData_new(name, col_names, row_names, cells) ==
    IF Len(col_names) * Len(row_names) # Len(cells) THEN None
    ELSE Some([name |-> name,
               col_names |-> col_names,
               row_names |-> row_names,
               data |-> cells,
               total_row |-> [c \in 1..Len(col_names) |->
                                ColumnSum(cells, Len(col_names), c - 1, 1)]])

get(d, col, row) ==
    IF col >= cols(d) \/ row >= rows(d) THEN None
    ELSE Some(d.data[row * cols(d) + col + 1])

\* add_row that forgets the cells of the new row
add_row_no_cells(d) == [d EXCEPT !.row_names = Append(@, <<>>)]

\* add_row that puts the new row first
add_row_in_front(d) ==
    [d EXCEPT !.row_names = <<<<>>>> \o @,
              !.data = [i \in 1..cols(d) |-> 0] \o @]

add_row(d) ==
    [d EXCEPT !.row_names = Append(@, <<>>),
              !.data = @ \o [i \in 1..cols(d) |-> 0]]

RemoveAt(s, i) == [j \in 1..(Len(s) - 1) |-> IF j < i THEN s[j] ELSE s[j + 1]]

\* remove_row that also removes the only row
remove_row_to_empty(d, row) ==
    IF row < rows(d)
    THEN [d EXCEPT !.row_names = RemoveAt(@, row + 1),
                   !.data = SubSeq(@, 1, row * cols(d))
                            \o SubSeq(@, (row + 1) * cols(d) + 1, Len(@))]
    ELSE d

\* remove_row that removes the label at row and the cells of the last row
remove_row_last_cells(d, row) ==
    IF rows(d) > 1 /\ row < rows(d)
    THEN [d EXCEPT !.row_names = RemoveAt(@, row + 1),
                   !.data = SubSeq(@, 1, Len(@) - cols(d))]
    ELSE d

remove_row(d, row) ==
    IF rows(d) > 1 /\ row < rows(d)
    THEN [d EXCEPT !.row_names = RemoveAt(@, row + 1),
                   !.data = SubSeq(@, 1, row * cols(d))
                            \o SubSeq(@, (row + 1) * cols(d) + 1, Len(@))]
    ELSE d

----------------------------------------------------------------------------
(* Editor and the values it carries (src/tui/editor.rs) *)

\* CurrentValue::Str(s) and CurrentValue::Data(i)
StrValue(s) == [tag |-> "Str", str |-> s, int |-> 0]
DataValue(i) == [tag |-> "Data", str |-> <<>>, int |-> i]

\* an Editor::default that comes with a value on the clipboard
Editor_default_stale_clipboard ==
    [cursor_position |-> 0, s |-> None, copy_buffer |-> Some(DataValue(0))]

Editor_default == [cursor_position |-> 0, s |-> None, copy_buffer |-> None]

is_editing(e) == e.s # None

Editor_start_editing(e, str) ==
    [e EXCEPT !.cursor_position = len(str), !.s = Some(str)]

\* Editor::stop_editing returns the buffer (the empty string when idle) ...
Editor_stop_editing_value(e) == IF e.s = None THEN <<>> ELSE e.s[1]
\* ... and leaves the editor idle
Editor_stop_editing(e) == [e EXCEPT !.s = None]

Editor_copy(e, value) == [e EXCEPT !.copy_buffer = Some(value)]

\* Editor::paste takes the clipboard: it returns it and leaves None
Editor_paste_value(e) == e.copy_buffer

\* an Editor::paste that clones the clipboard instead of taking it
Editor_paste_keeps(e) == e

Editor_paste(e) == [e EXCEPT !.copy_buffer = None]

insert_char(e, c) ==
    IF e.s = None THEN e
    ELSE [e EXCEPT !.s = Some(chars_take(e.s[1], e.cursor_position) \o <<c>>
                              \o chars_skip(e.s[1], e.cursor_position)),
                   !.cursor_position = @ + 1]

delete_left(e) ==
    IF e.s # None /\ e.cursor_position > 0
    THEN [e EXCEPT !.s = Some(chars_take(e.s[1], e.cursor_position - 1)
                              \o chars_skip(e.s[1], e.cursor_position)),
                   !.cursor_position = @ - 1]
    ELSE e

delete_right(e) ==
    IF e.s # None /\ e.cursor_position < len(e.s[1])
    THEN [e EXCEPT !.s = Some(chars_take(e.s[1], e.cursor_position)
                              \o chars_skip(e.s[1], e.cursor_position + 1))]
    ELSE e

\* move_left that does not look whether there is a buffer
move_left_unguarded(e) ==
    IF e.cursor_position > 0
    THEN [e EXCEPT !.cursor_position = @ - 1]
    ELSE e

move_left(e) ==
    IF e.s # None /\ e.cursor_position > 0
    THEN [e EXCEPT !.cursor_position = @ - 1]
    ELSE e

move_right(e) ==
    IF e.s # None /\ e.cursor_position < len(e.s[1])
    THEN [e EXCEPT !.cursor_position = @ + 1]
    ELSE e

----------------------------------------------------------------------------
(* The text form of an amount: crate::format::format_value (not among the  *)
(* sources; rendered as the specification states it) and parse_value.      *)

DecimalSeparator == "."

RECURSIVE NatToStr(_)
NatToStr(n) == IF n < 10 THEN <<Digits[n + 1]>>
               ELSE NatToStr(n \div 10) \o <<Digits[(n % 10) + 1]>>

Abs(v) == IF v < 0 THEN -v ELSE v

\* v/100 with exactly two fractional digits
format_value(v) ==
    (IF v < 0 THEN <<"-">> ELSE <<>>)
    \o NatToStr(Abs(v) \div 100)
    \o <<DecimalSeparator, Digits[((Abs(v) % 100) \div 10) + 1], Digits[(Abs(v) % 10) + 1]>>

\* A parser result: IResult<&str, T>.  ok = FALSE is nom::Err::Error.
POk(rest, value) == [ok |-> TRUE, rest |-> rest, value |-> value]
PErr(rest) == [ok |-> FALSE, rest |-> rest, value |-> 0]

\* the longest prefix of ASCII digits
RECURSIVE DigitPrefix(_)
DigitPrefix(s) ==
    IF s # <<>> /\ IsDigit(Head(s)) THEN <<Head(s)>> \o DigitPrefix(Tail(s)) ELSE <<>>

RECURSIVE DigitsToNat(_)
DigitsToNat(s) ==
    IF s = <<>> THEN 0 ELSE DigitsToNat(SubSeq(s, 1, Len(s) - 1)) * 10 + DigitVal(s[Len(s)])

\* value.checked_mul(10).and_then(|v| v.checked_add(d)), or checked_sub(d) when
\* negative: None on i32 overflow
checked_step(value, d, negative) ==
    IF negative
    THEN IF value < (I32_MIN + d + 9) \div 10 THEN None ELSE Some(value * 10 - d)
    ELSE IF value > (I32_MAX - d) \div 10 THEN None ELSE Some(value * 10 + d)

RECURSIVE checked_digits(_, _, _)
\* the digits ds folded into value, None as soon as a step overflows
checked_digits(ds, value, negative) ==
    IF ds = <<>> THEN Some(value)
    ELSE LET v == checked_step(value, DigitVal(Head(ds)), negative)
         IN  IF v = None THEN None ELSE checked_digits(Tail(ds), v[1], negative)

\* opt(p): an Error of p becomes Ok(None) on the untouched input
opt(input, r) == IF r.ok THEN POk(r.rest, Some(r.value)) ELSE POk(input, None)
unwrap_or(o, dflt) == IF o = None THEN dflt ELSE o[1]

\* nom::character::complete::i32 : optional sign, then at least one digit,
\* accumulated with checked_mul/checked_add (checked_sub when negative)
i32_parser(input) ==
    LET signed == input # <<>> /\ Head(input) \in {"-", "+"}
        negative == signed /\ Head(input) = "-"
        i == IF signed THEN Tail(input) ELSE input
        ds == DigitPrefix(i)
        n == checked_digits(ds, 0, negative)
    IN  IF ds = <<>> THEN PErr(input)
        ELSE IF n = None THEN PErr(input)
        ELSE POk(chars_skip(i, Len(ds)), n[1])

separator_parser(input) ==
    IF input # <<>> /\ Head(input) \in {",", "."} THEN POk(Tail(input), 0) ELSE PErr(input)

\* after_separator_parser that takes a single fractional digit as hundredths
after_separator_parser_units(input) ==
    LET after_digits == DigitPrefix(input)
        rest == chars_skip(input, Len(after_digits))
    IN  CASE Len(after_digits) = 0 -> POk(rest, 0)
          [] Len(after_digits) = 1 -> POk(rest, DigitsToNat(after_digits))
          [] Len(after_digits) = 2 -> POk(rest, DigitsToNat(after_digits))
          [] OTHER -> PErr(rest)

after_separator_parser(input) ==
    LET after_digits == DigitPrefix(input)
        rest == chars_skip(input, Len(after_digits))
    IN  CASE Len(after_digits) = 0 -> POk(rest, 0)
          [] Len(after_digits) = 1 -> POk(rest, DigitsToNat(after_digits) * 10)
          [] Len(after_digits) = 2 -> POk(rest, DigitsToNat(after_digits))
          [] OTHER -> PErr(rest)

\* preceded(separator_parser, after_separator_parser)
decimals_parser(input) ==
    LET sep == separator_parser(input)
    IN  IF sep.ok THEN after_separator_parser(sep.rest) ELSE sep

\* value_parser whose guard lets i32::MAX / 100 itself through
value_parser_guard_late(input) ==
    LET first == opt(input, i32_parser(input))
        value == unwrap_or(first.value, 0)
        second == opt(first.rest, decimals_parser(first.rest))
        decimals == unwrap_or(second.value, 0)
    IN  IF value > I32_MAX \div 100 \/ value < -(I32_MAX \div 100)
        THEN PErr(first.rest)
        ELSE POk(second.rest, wrapping_add(wrapping_mul(value, 100), decimals))

value_parser(input) ==
    LET first == opt(input, i32_parser(input))
        value == unwrap_or(first.value, 0)
        second == opt(first.rest, decimals_parser(first.rest))
        decimals == unwrap_or(second.value, 0)
    IN  IF value >= I32_MAX \div 100 \/ value <= -(I32_MAX \div 100)
        THEN PErr(first.rest)
        ELSE POk(second.rest, wrapping_add(wrapping_mul(value, 100), decimals))

\* Result<i32, KakeboError>: ok = FALSE is Err(KakeboError::Parse(_))
parse_value(s) ==
    LET r == value_parser(s)
    IN  IF r.ok /\ r.rest = <<>> THEN [ok |-> TRUE, value |-> r.value]
        ELSE [ok |-> FALSE, value |-> 0]

----------------------------------------------------------------------------
(* StatefulTable (src/tui/table.rs) *)

\* StatefulTable::current : which storage the position addresses.
\* "Str" and "Data" are the two CurrentReference variants, "None" is no reference.
current_tag(d, p) ==
    CASE p.kind = "Name" -> "Str"
      [] p.kind = "RowName" -> "Str"
      [] p.kind = "Data" -> IF get(d, p.col, p.row) = None THEN "None" ELSE "Data"
      [] p.kind = "TotalRow" -> IF p.col < Len(d.total_row) THEN "Data" ELSE "None"
      [] OTHER -> "None"

\* row_names[row] is indexed without a bounds check
current_panics(d, p) == p.kind = "RowName" /\ p.row >= rows(d)

\* CurrentValue::from(reference): the value behind the reference
current_value(d, p) ==
    CASE p.kind = "Name" -> StrValue(d.name)
      [] p.kind = "RowName" -> StrValue(d.row_names[p.row + 1])
      [] p.kind = "Data" -> DataValue(d.data[p.row * cols(d) + p.col + 1])
      [] OTHER -> DataValue(d.total_row[p.col + 1])

\* an assignment through the reference: *val = v
current_assign(d, p, v) ==
    CASE p.kind = "Name" -> [d EXCEPT !.name = v.str]
      [] p.kind = "RowName" -> [d EXCEPT !.row_names[p.row + 1] = v.str]
      [] p.kind = "Data" -> [d EXCEPT !.data[p.row * cols(d) + p.col + 1] = v.int]
      [] OTHER -> [d EXCEPT !.total_row[p.col + 1] = v.int]

\* Display for CurrentReference
to_string(v) == IF v.tag = "Str" THEN v.str ELSE format_value(v.int)

\* is_editable that lets fixed_rows_number cover the data cells as well
is_editable_fixed_data(p) ==
    CASE p.kind = "Name" -> TRUE
      [] p.kind = "RowName" -> p.row >= fixed_rows_number
      [] p.kind = "Data" -> p.col \in editable_columns /\ p.row >= fixed_rows_number
      [] p.kind = "TotalRow" -> p.col \in editable_total_fields
      [] OTHER -> FALSE

is_editable(p) ==
    CASE p.kind = "Name" -> TRUE
      [] p.kind = "RowName" -> p.row >= fixed_rows_number
      [] p.kind = "Data" -> p.col \in editable_columns
      [] p.kind = "TotalRow" -> p.col \in editable_total_fields
      [] OTHER -> FALSE

\* start_editing that takes the empty text without asking for the current value
start_editing_any_focus(d, p, e, delete) ==
    IF delete THEN Editor_start_editing(e, <<>>)
    ELSE IF current_tag(d, p) = "None" THEN e
    ELSE Editor_start_editing(e, to_string(current_value(d, p)))

\* StatefulTable::start_editing(delete): the editor afterwards
start_editing(d, p, e, delete) ==
    IF current_tag(d, p) = "None" THEN e
    ELSE Editor_start_editing(e, IF delete THEN <<>> ELSE to_string(current_value(d, p)))

\* cancel_editing that leaves the editor as it is
cancel_editing_keeps_buffer(e) == e

cancel_editing(e) == IF is_editing(e) THEN Editor_stop_editing(e) ELSE e

\* stop_editing that stores the default 0 when the buffer does not parse
stop_editing_data_default(d, p, e) ==
    LET s == Editor_stop_editing_value(e)
    IN  IF ~is_editing(e) \/ current_tag(d, p) = "None" THEN d
        ELSE IF current_tag(d, p) = "Str" THEN current_assign(d, p, StrValue(s))
        ELSE current_assign(d, p, DataValue(parse_value(s).value))

\* StatefulTable::stop_editing: the grid afterwards, ...
stop_editing_data(d, p, e) ==
    LET s == Editor_stop_editing_value(e)
    IN  IF ~is_editing(e) \/ current_tag(d, p) = "None" THEN d
        ELSE IF current_tag(d, p) = "Str" THEN current_assign(d, p, StrValue(s))
        ELSE IF parse_value(s).ok THEN current_assign(d, p, DataValue(parse_value(s).value))
        ELSE d

\* stop_editing that calls on_save before it writes the value
stop_editing_hook_before_write(d, p, e) ==
    IF ~is_editing(e) \/ current_tag(d, p) = "None" THEN <<>>
    ELSE <<[data |-> d, pos |-> p]>>

\* ... the calls of on_save it makes, each with the grid and position handed over, ...
stop_editing_hook(d, p, e) ==
    IF ~is_editing(e) \/ current_tag(d, p) = "None" THEN <<>>
    ELSE <<[data |-> stop_editing_data(d, p, e), pos |-> p]>>

\* stop_editing that reads the buffer without taking it
stop_editing_editor_keeps_buffer(e) == e

\* ... and the editor afterwards
stop_editing_editor(e) == IF is_editing(e) THEN Editor_stop_editing(e) ELSE e

above(d, p) ==
    CASE p.kind = "Name" -> p
      [] p.kind = "RowName" -> IF p.row = 0 THEN Name ELSE RowName(p.row - 1)
      [] p.kind = "Data" -> IF p.row = 0 THEN Name ELSE Data(p.col, p.row - 1)
      [] p.kind = "TotalRow" -> Data(p.col, rows(d) - 1)
      [] OTHER -> TotalRow(Min(p.col, cols(d) - 1))

\* below that clamps a total field to NUMBER_OF_BUTTONS instead of the last button
below_clamps_late(d, p) ==
    CASE p.kind = "Name" -> Data(0, 0)
      [] p.kind = "RowName" -> IF p.row + 1 = rows(d) THEN TotalRow(0) ELSE RowName(p.row + 1)
      [] p.kind = "Data" -> IF p.row + 1 = rows(d) THEN TotalRow(p.col) ELSE Data(p.col, p.row + 1)
      [] p.kind = "TotalRow" -> Button(Min(p.col, NUMBER_OF_BUTTONS))
      [] OTHER -> p

below(d, p) ==
    CASE p.kind = "Name" -> Data(0, 0)
      [] p.kind = "RowName" -> IF p.row + 1 = rows(d) THEN TotalRow(0) ELSE RowName(p.row + 1)
      [] p.kind = "Data" -> IF p.row + 1 = rows(d) THEN TotalRow(p.col) ELSE Data(p.col, p.row + 1)
      [] p.kind = "TotalRow" -> Button(Min(p.col, NUMBER_OF_BUTTONS - 1))
      [] OTHER -> p

left_of(d, p) ==
    CASE p.kind \in {"Name", "RowName"} -> p
      [] p.kind = "Data" -> IF p.col = 0 THEN RowName(p.row) ELSE Data(p.col - 1, p.row)
      [] p.kind = "TotalRow" -> IF p.col = 0 THEN p ELSE TotalRow(p.col - 1)
      [] OTHER -> IF p.col = 0 THEN p ELSE Button(p.col - 1)

\* right_of that takes cols() for the last column
right_of_past_last(d, p) ==
    CASE p.kind = "Name" -> p
      [] p.kind = "RowName" -> Data(0, p.row)
      [] p.kind = "Data" -> IF p.col = cols(d) THEN p ELSE Data(p.col + 1, p.row)
      [] p.kind = "TotalRow" -> IF p.col = cols(d) THEN p ELSE TotalRow(p.col + 1)
      [] OTHER -> IF p.col + 1 = NUMBER_OF_BUTTONS THEN p ELSE Button(p.col + 1)

right_of(d, p) ==
    CASE p.kind = "Name" -> p
      [] p.kind = "RowName" -> Data(0, p.row)
      [] p.kind = "Data" -> IF p.col + 1 = cols(d) THEN p ELSE Data(p.col + 1, p.row)
      [] p.kind = "TotalRow" -> IF p.col + 1 = cols(d) THEN p ELSE TotalRow(p.col + 1)
      [] OTHER -> IF p.col + 1 = NUMBER_OF_BUTTONS THEN p ELSE Button(p.col + 1)

move_to_top(d, p) == Name

move_to_bottom(d, p) == Button(Min(NUMBER_OF_BUTTONS, cols(d) - 1))

move_to_start(d, p) ==
    CASE p.kind \in {"Name", "RowName"} -> p
      [] p.kind = "Data" -> RowName(p.row)
      [] p.kind = "TotalRow" -> TotalRow(0)
      [] OTHER -> Button(0)

\* move_to_end that takes cols() for the last column
move_to_end_past_last(d, p) ==
    CASE p.kind = "Name" -> p
      [] p.kind \in {"RowName", "Data"} -> Data(cols(d), p.row)
      [] p.kind = "TotalRow" -> TotalRow(cols(d))
      [] OTHER -> Button(NUMBER_OF_BUTTONS - 1)

move_to_end(d, p) ==
    CASE p.kind = "Name" -> p
      [] p.kind \in {"RowName", "Data"} -> Data(cols(d) - 1, p.row)
      [] p.kind = "TotalRow" -> TotalRow(cols(d) - 1)
      [] OTHER -> Button(NUMBER_OF_BUTTONS - 1)

\* the TuiAction::RemoveRow arm of perform_tui_action: the grid and the cursor afterwards
RemoveRow_data(d, p) ==
    IF p.kind \in {"Data", "RowName"} THEN remove_row(d, p.row) ELSE d

\* a RemoveRow arm that leaves the cursor where it was
RemoveRow_pos_stays(d, p) == p

RemoveRow_pos(d, p) ==
    IF p.kind \in {"Data", "RowName"} /\ p.row >= rows(RemoveRow_data(d, p))
    THEN [p EXCEPT !.row = p.row - 1]
    ELSE p

----------------------------------------------------------------------------
(* The widget as a state machine: one action per TuiAction and per         *)
(* EditingAction, routed as handle_events routes them.                    *)

\* the grids the widget is built over, each as TableData::new yields it
InitGrids ==
    { TableData_new(<<"n">>, << <<"A">>, <<"B">> >>, << <<"a">>, <<"b">> >>,
                    <<100, 200, 300, 400>>)[1],
      TableData_new(<<"ue">>, << <<"A">>, <<"B">>, <<"C">>, <<"D">> >>, << <<"a">> >>,
                    <<100, 0, 0, 0>>)[1],
      TableData_new(<<>>, << <<"A">> >>, << <<"a">> >>, <<0>>)[1] }

\* the builder's options: the defaults, and one policy with both kinds of every position
InitPolicies ==
    { [fixed_rows |-> 0, editable_columns |-> {}, editable_total_fields |-> {}],
      [fixed_rows |-> 1, editable_columns |-> {0}, editable_total_fields |-> {1}] }

\* the characters InsertChar delivers
InsertChars == {"9", "x"}

\* StatefulTableBuilder::build
Init ==
    /\ data \in InitGrids
    /\ \E policy \in InitPolicies :
         /\ fixed_rows_number = policy.fixed_rows
         /\ editable_columns = policy.editable_columns
         /\ editable_total_fields = policy.editable_total_fields
    /\ pos = Name
    /\ editor = Editor_default
    /\ status = "running"
    /\ last = [action |-> "build", hook |-> <<>>, buffer |-> None,
               parse_failed |-> FALSE, ret |-> None, arg |-> None]
    /\ edit_start = None
    /\ steps = 0
    /\ expenses = None
    /\ frame = None

\* handle_events that hands an event to perform_tui_action during an edit as well
Navigating_during_edit == status = "running"

\* handle_events: which of the two handlers gets the next key
Navigating == status = "running" /\ ~is_editing(editor)
Editing == status = "running" /\ is_editing(editor)

\* one input event handled: what it was and what it did
Observed(a, hook, buffer, failed, ret) ==
    /\ steps < MaxSteps
    /\ steps' = steps + 1
    /\ last' = [action |-> a, hook |-> hook, buffer |-> buffer,
                parse_failed |-> failed, ret |-> ret, arg |-> None]
    /\ UNCHANGED <<expenses, frame>>

Handled(a, hook, failed, ret) == Observed(a, hook, None, failed, ret)

Policy == <<fixed_rows_number, editable_columns, editable_total_fields>>

\* a panic ends the program where it stands
Panic(a) ==
    /\ status' = "panicked"
    /\ Handled(a, <<>>, FALSE, None)
    /\ UNCHANGED <<data, pos, editor, Policy, edit_start>>

\* a cursor motion
Motion(a, p) ==
    /\ Navigating
    /\ pos' = p
    /\ edit_start' = None
    /\ Handled(a, <<>>, FALSE, None)
    /\ UNCHANGED <<data, editor, Policy, status>>

\* start_editing(delete) with the cursor at p
StartEdit(a, p, delete) ==
    /\ Navigating
    /\ IF current_panics(data, p) THEN Panic(a)
       ELSE /\ pos' = p
            /\ editor' = start_editing(data, p, editor, delete)
            /\ edit_start' = IF is_editing(editor')
                             THEN Some([data |-> data, pos |-> p,
                                        copy_buffer |-> editor.copy_buffer])
                             ELSE None
            /\ Handled(a, <<>>, FALSE, None)
            /\ UNCHANGED <<data, Policy, status>>

MoveUp == Motion("MoveUp", above(data, pos))
MoveDown == Motion("MoveDown", below(data, pos))
MoveLeft == Motion("MoveLeft", left_of(data, pos))
MoveRight == Motion("MoveRight", right_of(data, pos))

Edit == StartEdit("Edit", pos, FALSE)
Replace == StartEdit("Replace", pos, TRUE)

Delete ==
    /\ Navigating
    /\ IF current_panics(data, pos) THEN Panic("Delete")
       ELSE /\ data' = CASE current_tag(data, pos) = "Str" ->
                              current_assign(data, pos, StrValue(<<>>))
                         [] current_tag(data, pos) = "Data" ->
                              current_assign(data, pos, DataValue(0))
                         [] OTHER -> data
            /\ edit_start' = None
            /\ Handled("Delete", <<>>, FALSE, None)
            /\ UNCHANGED <<pos, editor, Policy, status>>

\* button_action that looks the action up one place too far
button_action_shifted(p) ==
    IF p.col + 1 < NUMBER_OF_BUTTONS THEN BUTTON_ACTIONS[p.col + 2] ELSE "None"

\* the button's bound action, or "None" where BUTTON_ACTIONS.get(button_num) is None
button_action(p) ==
    IF p.col < NUMBER_OF_BUTTONS THEN BUTTON_ACTIONS[p.col + 1] ELSE "None"

Select ==
    IF is_editable(pos) THEN StartEdit("Select", pos, TRUE)
    ELSE /\ Navigating
         /\ data' = IF pos.kind # "Button" THEN data
                    ELSE CASE button_action(pos) = "RemoveRow" -> remove_row(data, rows(data) - 1)
                           [] button_action(pos) = "AddRow" -> add_row(data)
                           [] OTHER -> data
         /\ status' = IF pos.kind = "Button" /\ button_action(pos) = "Exit"
                      THEN "exited" ELSE status
         /\ edit_start' = None
         /\ Handled("Select", <<>>, FALSE,
                    IF pos.kind = "Button" /\ button_action(pos) = "Exit"
                    THEN Some("Exit") ELSE None)
         /\ UNCHANGED <<pos, editor, Policy>>

Copy ==
    /\ Navigating
    /\ IF current_panics(data, pos) THEN Panic("Copy")
       ELSE /\ editor' = IF current_tag(data, pos) = "None" THEN editor
                          ELSE Editor_copy(editor, current_value(data, pos))
            /\ edit_start' = None
            /\ Handled("Copy", <<>>, FALSE, None)
            /\ UNCHANGED <<data, pos, Policy, status>>

\* the match of the Paste arm that writes the clipboard whatever its type
paste_data_untyped(d, p, v) ==
    IF current_tag(d, p) # "None" THEN current_assign(d, p, v) ELSE d

\* the match of the Paste arm: the value v goes through a reference of its own type only
paste_data(d, p, v) ==
    IF current_tag(d, p) = v.tag THEN current_assign(d, p, v) ELSE d

Paste ==
    /\ Navigating
    /\ IF Editor_paste_value(editor) = None
       THEN /\ edit_start' = None
            /\ Handled("Paste", <<>>, FALSE, None)
            /\ UNCHANGED <<data, pos, editor, Policy, status>>
       ELSE IF current_panics(data, pos) THEN Panic("Paste")
       ELSE /\ editor' = Editor_paste(editor)
            /\ data' = paste_data(data, pos, Editor_paste_value(editor)[1])
            /\ edit_start' = None
            /\ Handled("Paste", <<>>, FALSE, None)
            /\ UNCHANGED <<pos, Policy, status>>

ToTop == Motion("ToTop", move_to_top(data, pos))
ToBottom == Motion("ToBottom", move_to_bottom(data, pos))
ToStart == Motion("ToStart", move_to_start(data, pos))
ToEnd == Motion("ToEnd", move_to_end(data, pos))

EditStart == StartEdit("EditStart", move_to_start(data, pos), FALSE)
EditEnd == StartEdit("EditEnd", move_to_end(data, pos), FALSE)

\* TuiAction::Next and TuiAction::Prev are todo!()
TuiNext == Navigating /\ Panic("Next")
TuiPrev == Navigating /\ Panic("Prev")

Exit ==
    /\ Navigating
    /\ status' = "exited"
    /\ edit_start' = None
    /\ Handled("Exit", <<>>, FALSE, Some("Exit"))
    /\ UNCHANGED <<data, pos, editor, Policy>>

AddRow ==
    /\ Navigating
    /\ data' = add_row(data)
    /\ edit_start' = None
    /\ Handled("AddRow", <<>>, FALSE, None)
    /\ UNCHANGED <<pos, editor, Policy, status>>

RemoveRow ==
    /\ Navigating
    /\ data' = RemoveRow_data(data, pos)
    /\ pos' = RemoveRow_pos(data, pos)
    /\ edit_start' = None
    /\ Handled("RemoveRow", <<>>, FALSE, None)
    /\ UNCHANGED <<editor, Policy, status>>

\* an EditingAction that only the editor sees
Keystroke(a, e) ==
    /\ Editing
    /\ editor' = e
    /\ Handled(a, <<>>, FALSE, None)
    /\ UNCHANGED <<data, pos, Policy, status, edit_start>>

InsertChar ==
    \E c \in InsertChars :
        Keystroke("InsertChar", insert_char(editor, c))

DeleteLeft == Keystroke("DeleteLeft", delete_left(editor))
DeleteRight == Keystroke("DeleteRight", delete_right(editor))
EditMoveLeft == Keystroke("EditMoveLeft", move_left(editor))
EditMoveRight == Keystroke("EditMoveRight", move_right(editor))
CancelEditing == Keystroke("CancelEditing", cancel_editing(editor))

StopEditing ==
    /\ Editing
    /\ IF current_panics(data, pos) THEN Panic("StopEditing")
       ELSE /\ data' = stop_editing_data(data, pos, editor)
            /\ editor' = stop_editing_editor(editor)
            /\ Observed("StopEditing", stop_editing_hook(data, pos, editor),
                        Some(Editor_stop_editing_value(editor)),
                        /\ current_tag(data, pos) = "Data"
                        /\ ~parse_value(Editor_stop_editing_value(editor)).ok,
                        None)
            /\ UNCHANGED <<pos, Policy, status, edit_start>>

Next ==
    \/ MoveUp \/ MoveDown \/ MoveLeft \/ MoveRight
    \/ Edit \/ Replace \/ Delete \/ Select \/ Copy \/ Paste
    \/ ToTop \/ ToBottom \/ ToStart \/ ToEnd
    \/ EditStart \/ EditEnd
    \/ TuiNext \/ TuiPrev
    \/ Exit \/ AddRow \/ RemoveRow
    \/ InsertChar \/ DeleteLeft \/ DeleteRight \/ EditMoveLeft \/ EditMoveRight
    \/ CancelEditing \/ StopEditing

Spec == Init /\ [][Next]_vars

\* TableData::add_row and TableData::remove_row called on the grid directly,
\* with a row argument in and out of range; arg is the argument of the call
TableCall(a, arg, d) ==
    /\ status = "running"
    /\ data' = d
    /\ steps < MaxSteps
    /\ steps' = steps + 1
    /\ last' = [action |-> a, hook |-> <<>>, buffer |-> None,
                parse_failed |-> FALSE, ret |-> None, arg |-> arg]
    /\ UNCHANGED <<pos, editor, Policy, status, edit_start, expenses, frame>>

Call_add_row == TableCall("add_row", None, add_row(data))
Call_remove_row ==
    \E row \in 0..(rows(data) + 1) : TableCall("remove_row", Some(row), remove_row(data, row))

NextCalls == Next \/ Call_add_row \/ Call_remove_row

SpecCalls == Init /\ [][NextCalls]_vars

\* perform_editing_action called on the widget whatever its state, as the trait
\* TuiWidget lets a caller do, beside handle_events
Performed(a, e) ==
    /\ status = "running"
    /\ editor' = e
    /\ Handled(a, <<>>, FALSE, None)
    /\ UNCHANGED <<data, pos, Policy, status, edit_start>>

PerformInsertChar ==
    \E c \in InsertChars :
        Performed("InsertChar", insert_char(editor, c))

PerformDeleteLeft == Performed("DeleteLeft", delete_left(editor))
PerformDeleteRight == Performed("DeleteRight", delete_right(editor))
PerformMoveLeft == Performed("EditMoveLeft", move_left(editor))
PerformMoveRight == Performed("EditMoveRight", move_right(editor))
PerformCancelEditing == Performed("CancelEditing", cancel_editing(editor))

PerformStopEditing ==
    /\ status = "running"
    /\ IF is_editing(editor) /\ current_panics(data, pos) THEN Panic("StopEditing")
       ELSE /\ data' = stop_editing_data(data, pos, editor)
            /\ editor' = stop_editing_editor(editor)
            /\ Observed("StopEditing", stop_editing_hook(data, pos, editor),
                        Some(Editor_stop_editing_value(editor)),
                        /\ is_editing(editor)
                        /\ current_tag(data, pos) = "Data"
                        /\ ~parse_value(Editor_stop_editing_value(editor)).ok,
                        None)
            /\ UNCHANGED <<pos, Policy, status, edit_start>>

NextPerform ==
    \/ Next
    \/ PerformInsertChar \/ PerformDeleteLeft \/ PerformDeleteRight
    \/ PerformMoveLeft \/ PerformMoveRight
    \/ PerformCancelEditing \/ PerformStopEditing

SpecPerform == Init /\ [][NextPerform]_vars

----------------------------------------------------------------------------
(* TableData::new as a function of its arguments: one call, with arguments  *)
(* drawn from the sets below, made before any widget is built.             *)

MaxNewLabels == 2
MaxNewCells == 5

\* #[derive(Default)] for TableData, the grid a new builder holds
TableData_default ==
    [name |-> <<>>, col_names |-> <<>>, row_names |-> <<>>, data |-> <<>>, total_row |-> <<>>]

\* the arguments of the call: labels, and cells fitting them, too few and too many
NewNames == {<<>>, <<"n">>}
NewColNames == {[i \in 1..n |-> IF i = 1 THEN <<"A">> ELSE <<"B">>] : n \in 0..MaxNewLabels}
NewRowNames == {[i \in 1..n |-> IF i = 1 THEN <<"R", "1">> ELSE <<"R", "2">>] :
                  n \in 0..MaxNewLabels}
NewCellValues == {100, 200, 300, 400}
NewCells == UNION {[1..n -> NewCellValues] : n \in 0..MaxNewCells}

\* StatefulTableBuilder::new, before table_data is called
InitNew ==
    /\ data = TableData_default
    /\ fixed_rows_number = 0
    /\ editable_columns = {}
    /\ editable_total_fields = {}
    /\ pos = Name
    /\ editor = Editor_default
    /\ status = "building"
    /\ last = [action |-> "builder", hook |-> <<>>, buffer |-> None,
               parse_failed |-> FALSE, ret |-> None, arg |-> None]
    /\ edit_start = None
    /\ steps = 0
    /\ expenses = None
    /\ frame = None

\* TableData::new(name, col_names, row_names, data): the arguments and what it returns;
\* a grid that it returns is handed to the builder
Call_new ==
    /\ status = "building"
    /\ \E name \in NewNames, col_names \in NewColNames, row_names \in NewRowNames,
          cells \in NewCells :
         LET made == TableData_new(name, col_names, row_names, cells)
         IN  /\ last' = [action |-> "new", hook |-> <<>>, buffer |-> None,
                         parse_failed |-> FALSE, ret |-> made,
                         arg |-> Some([name |-> name, col_names |-> col_names,
                                       row_names |-> row_names, data |-> cells])]
             /\ data' = IF made = None THEN data ELSE made[1]
             /\ status' = IF made = None THEN "no grid" ELSE "grid"
    /\ steps' = steps + 1
    /\ UNCHANGED <<pos, editor, Policy, edit_start, expenses, frame>>

NextNew == Call_new

SpecNew == InitNew /\ [][NextNew]_vars

----------------------------------------------------------------------------
(* is_editable as a function of the builder's options and a position: the   *)
(* widget built with every combination of options below, asked about every  *)
(* position below.                                                          *)

MaxPolicyIndex == 2

\* the positions asked about, rows and columns of the grid or not
AskedPositions ==
    {Name}
    \cup {RowName(r) : r \in 0..MaxPolicyIndex}
    \cup {Data(c, r) : c \in 0..MaxPolicyIndex, r \in 0..MaxPolicyIndex}
    \cup {TotalRow(c) : c \in 0..MaxPolicyIndex}
    \cup {Button(i) : i \in 0..(NUMBER_OF_BUTTONS - 1)}

\* StatefulTableBuilder::build after fixed_rows, editable_columns and
\* editable_total_fields with any arguments
InitOptions ==
    /\ data \in InitGrids
    /\ fixed_rows_number \in 0..(MaxPolicyIndex + 1)
    /\ editable_columns \in SUBSET (0..MaxPolicyIndex)
    /\ editable_total_fields \in SUBSET (0..MaxPolicyIndex)
    /\ pos = Name
    /\ editor = Editor_default
    /\ status = "running"
    /\ last = [action |-> "build", hook |-> <<>>, buffer |-> None,
               parse_failed |-> FALSE, ret |-> None, arg |-> None]
    /\ edit_start = None
    /\ steps = 0
    /\ expenses = None
    /\ frame = None

\* is_editable(&pos): the position asked about and the answer; the widget stays as it is
Call_is_editable ==
    /\ status = "running"
    /\ \E p \in AskedPositions :
         last' = [action |-> "is_editable", hook |-> <<>>, buffer |-> None,
                  parse_failed |-> FALSE, ret |-> Some(is_editable(p)), arg |-> Some(p)]
    /\ UNCHANGED <<data, pos, editor, Policy, status, edit_start, steps, expenses, frame>>

NextOptions == Call_is_editable

SpecOptions == InitOptions /\ [][NextOptions]_vars

----------------------------------------------------------------------------
(* format_value and parse_value as functions of their argument: one call    *)
(* made beside the builder, with an amount or a text from the sets below.   *)

MaxAmount == 250
MaxTextLen == 5

\* the amounts formatted: all small ones of either sign, and the largest that parse
Amounts ==
    (-MaxAmount..MaxAmount)
    \cup {I32_MAX - 48, I32_MAX - 147, -(I32_MAX - 48), -(I32_MAX - 147)}

\* the texts parsed: every text of up to MaxTextLen of these characters, ...
TextChars == {"-", "+", "1", "5", ".", ",", "x"}
ShortTexts == UNION {[1..n -> TextChars] : n \in 0..MaxTextLen}

\* ... the texts "12.50", "3", "1,5", "", "12.555", "-1.50" and "-0.5", ...
ExampleTexts ==
    { <<"1", "2", ".", "5", "0">>, <<"3">>, <<"1", ",", "5">>, <<>>,
      <<"1", "2", ".", "5", "5", "5">>,
      <<"-", "1", ".", "5", "0">>, <<"-", "0", ".", "5">> }

\* ... and integer parts around i32::MAX / 100 and i32::MAX, with and without a
\* sign and a fraction
GuardDigits ==
    { <<"2", "1", "4", "7", "4", "8", "3", "5">>,
      <<"2", "1", "4", "7", "4", "8", "3", "6">>,
      <<"2", "1", "4", "7", "4", "8", "3", "7">>,
      <<"0", "2", "1", "4", "7", "4", "8", "3", "5">>,
      <<"9", "9", "9", "9", "9", "9", "9", "9">>,
      <<"2", "1", "4", "7", "4", "8", "3", "6", "4", "7">>,
      <<"2", "1", "4", "7", "4", "8", "3", "6", "4", "8">>,
      <<"9", "9", "9", "9", "9", "9", "9", "9", "9", "9", "9">> }
GuardTexts ==
    { sign \o ds \o frac :
        sign \in {<<>>, <<"-">>}, ds \in GuardDigits,
        frac \in {<<>>, <<".", "4", "7">>, <<".", "4", "8">>, <<",", "9", "9">>} }

ParseInputs == ShortTexts \cup ExampleTexts \cup GuardTexts

\* format_value(v), and parse_value of the text it returns
Call_format_value ==
    /\ status = "building"
    /\ steps = 0
    /\ steps' = 1
    /\ \E v \in Amounts :
         last' = [action |-> "format_value", hook |-> <<>>, buffer |-> Some(format_value(v)),
                  parse_failed |-> ~parse_value(format_value(v)).ok,
                  ret |-> parse_value(format_value(v)), arg |-> Some(v)]
    /\ UNCHANGED <<data, pos, editor, Policy, status, edit_start, expenses, frame>>

\* parse_value(s)
Call_parse_value ==
    /\ status = "building"
    /\ steps = 0
    /\ steps' = 1
    /\ \E s \in ParseInputs :
         last' = [action |-> "parse_value", hook |-> <<>>, buffer |-> None,
                  parse_failed |-> ~parse_value(s).ok,
                  ret |-> parse_value(s), arg |-> Some(s)]
    /\ UNCHANGED <<data, pos, editor, Policy, status, edit_start, expenses, frame>>

NextText == Call_format_value \/ Call_parse_value

SpecText == InitNew /\ [][NextText]_vars

----------------------------------------------------------------------------
(* The builder from new() to build(): table_data called with a grid that    *)
(* TableData::new accepted, or not called at all.                           *)

\* StatefulTableBuilder::build: the widget over whatever grid the builder holds
Build ==
    /\ status \in {"building", "grid"}
    /\ status' = "running"
    /\ pos' = Name
    /\ editor' = Editor_default
    /\ last' = [action |-> "build", hook |-> <<>>, buffer |-> None,
                parse_failed |-> FALSE, ret |-> None, arg |-> None]
    /\ UNCHANGED <<data, Policy, edit_start, steps, expenses, frame>>

NextBuild == Call_new \/ Build

SpecBuild == InitNew /\ [][NextBuild]_vars

----------------------------------------------------------------------------
(* render: the column widths the table is drawn with and the place of the   *)
(* text cursor, relative to the inner area of the block (area.x, area.y).   *)

TABLE_COLUMN_SPACING == 2

BUTTON_LABELS == <<"Add Row", "Delete Last Row", "Confirm">>

\* the u16 maximum of a set of widths
MaxOf(S) == CHOOSE m \in S : \A x \in S : x <= m

\* first_width: the widget's heading, the row labels, and the buffer of an edit on a
\* row label with room for two more
first_width(name, d, p, e) ==
    MaxOf({len(name)}
          \cup {len(d.row_names[r]) : r \in 1..rows(d)}
          \cup (IF is_editing(e) /\ p.kind = "RowName" THEN {len(e.s[1]) + 2} ELSE {}))

\* other_widths: per column the label, the formatted cells and total, and the buffer
\* of an edit in that column with room for two more
other_widths(d, p, e) ==
    [c \in 1..cols(d) |->
        MaxOf({len(d.col_names[c])}
              \cup {len(format_value(d.data[r * cols(d) + c])) : r \in 0..(rows(d) - 1)}
              \cup {len(format_value(d.total_row[c]))}
              \cup (IF is_editing(e) /\ p.kind \in {"Data", "TotalRow"} /\ p.col = c - 1
                    THEN {len(e.s[1]) + 2} ELSE {}))]

\* other_widths.map(|w| w + TABLE_COLUMN_SPACING).take(col).sum()
RECURSIVE spaced_sum(_, _)
spaced_sum(widths, col) ==
    IF col <= 0 \/ widths = <<>> THEN 0
    ELSE Head(widths) + TABLE_COLUMN_SPACING + spaced_sum(Tail(widths), col - 1)

\* a cursor column that leaves out the spacing after the first column
cursor_col_no_first_spacing(fw, widths, col) == fw + spaced_sum(widths, col)

cursor_col(fw, widths, col) == fw + TABLE_COLUMN_SPACING + spaced_sum(widths, col)

cursor_row(row) == row + 2

RECURSIVE button_offset(_)
button_offset(n) ==
    IF n <= 0 THEN 0
    ELSE IF n > NUMBER_OF_BUTTONS THEN button_offset(NUMBER_OF_BUTTONS)
    ELSE Len(BUTTON_LABELS[n]) + 1 + button_offset(n - 1)

\* (cell_x, cell_y) of the focused position
cursor_cell(d, p, fw, widths) ==
    CASE p.kind = "Name" -> <<0, 0>>
      [] p.kind = "RowName" -> <<0, cursor_row(p.row)>>
      [] p.kind = "Data" -> <<cursor_col(fw, widths, p.col), cursor_row(p.row)>>
      [] p.kind = "TotalRow" -> <<cursor_col(fw, widths, p.col), cursor_row(rows(d))>>
      [] p.kind = "Button" -> <<button_offset(p.col), cursor_row(rows(d) + 1)>>

\* StatefulTable::render for a widget whose heading is name: the widths, and the
\* cursor it sets when an edit is going on
Render ==
    /\ status = "running"
    /\ \E name \in {<<>>, <<"t", "a", "b", "l", "e", "s">>} :
         LET fw == first_width(name, data, pos, editor)
             widths == other_widths(data, pos, editor)
             cell == cursor_cell(data, pos, fw, widths)
         IN  last' = [action |-> "render", hook |-> <<>>, buffer |-> None,
                      parse_failed |-> FALSE,
                      ret |-> IF is_editing(editor)
                              THEN Some(<<cell[1] + editor.cursor_position, cell[2]>>)
                              ELSE None,
                      arg |-> Some([first_width |-> fw, other_widths |-> widths])]
    /\ UNCHANGED <<data, pos, editor, Policy, status, edit_start, steps, expenses, frame>>

NextRender == Next \/ Render

SpecRender == Init /\ [][NextRender]_vars

----------------------------------------------------------------------------
(* Command::Receive of main.rs: money received from source_person is        *)
(* assigned to that person's unpaid parts of group expenses.  Amounts are   *)
(* whole numbers of the smallest unit.  expenses.group_expenses holds the   *)
(* parts of source_person, one per group expense, as [to_pay, paid];        *)
(* expenses.overflows holds that person's entry of the map, if any.         *)

MaxParts == 2
MaxReceived == 4

\* the store before the command: parts paid, unpaid and overpaid, and an overflow entry
\* that a stored file may hold
InitReceive ==
    /\ data = TableData_default
    /\ fixed_rows_number = 0
    /\ editable_columns = {}
    /\ editable_total_fields = {}
    /\ pos = Name
    /\ editor = Editor_default
    /\ edit_start = None
    /\ steps = 0
    /\ frame = None
    /\ status = "command"
    /\ last = [action |-> "load", hook |-> <<>>, buffer |-> None,
               parse_failed |-> FALSE, ret |-> None, arg |-> None]
    /\ \E n \in 0..MaxParts :
         \E parts \in [1..n -> [to_pay : {2, 5}, paid : {None, Some(0), Some(1), Some(5)}]],
            stored \in {None, Some(-1), Some(0), Some(2)} :
              expenses = [group_expenses |-> parts, overflows |-> stored]

\* the command up to the loop: a negative value is turned down
Receive_begin ==
    /\ status = "command"
    /\ \E value \in (-1)..MaxReceived :
         /\ last' = [action |-> "Receive", hook |-> <<>>, buffer |-> None,
                     parse_failed |-> FALSE, ret |-> None,
                     arg |-> Some([value |-> value, before |-> expenses])]
         /\ IF value < 0
            THEN status' = "error" /\ frame' = frame
            ELSE /\ status' = "assigning"
                 /\ frame' = Some([this_value |-> value,
                                   overflow |-> unwrap_or(expenses.overflows, 0),
                                   any_change |-> FALSE])
    /\ UNCHANGED <<data, pos, editor, Policy, edit_start, steps, expenses>>

\* a loop body that pays from the overflow without taking the money out of it
pay_off_keeps_overflow(this_value, overflow, part) ==
    LET still_to_pay == part.to_pay - unwrap_or(part.paid, 0)
        non_overflow_part == Min(this_value, still_to_pay)
        overflow_part == IF still_to_pay - non_overflow_part # 0
                         THEN Min(overflow, still_to_pay - non_overflow_part) ELSE 0
    IN  [this_value |-> this_value - non_overflow_part,
         overflow |-> overflow,
         now_paid |-> unwrap_or(part.paid, 0) + non_overflow_part + overflow_part]

\* the body of the loop for the chosen part: first the received money, then the overflow
pay_off(this_value, overflow, part) ==
    LET still_to_pay == part.to_pay - unwrap_or(part.paid, 0)
        non_overflow_part == Min(this_value, still_to_pay)
        overflow_part == IF still_to_pay - non_overflow_part # 0
                         THEN Min(overflow, still_to_pay - non_overflow_part) ELSE 0
    IN  [this_value |-> this_value - non_overflow_part,
         overflow |-> overflow - overflow_part,
         now_paid |-> unwrap_or(part.paid, 0) + non_overflow_part + overflow_part]

\* one turn of the loop in which the prompt is answered: with a part that is not paid
\* up, or with an error other than a cancel, which the ? operator returns
Receive_pay ==
    /\ status = "assigning"
    /\ frame[1].this_value + frame[1].overflow > 0
    /\ \E i \in DOMAIN expenses.group_expenses :
         LET part == expenses.group_expenses[i]
             paid == pay_off(frame[1].this_value, frame[1].overflow, part)
         IN  /\ part.to_pay > unwrap_or(part.paid, 0)
             /\ \/ /\ expenses' = [expenses EXCEPT
                                     !.group_expenses[i].paid = Some(paid.now_paid)]
                   /\ frame' = Some([this_value |-> paid.this_value,
                                     overflow |-> paid.overflow,
                                     any_change |-> TRUE])
                   /\ last' = [last EXCEPT !.action = "pay"]
                   /\ status' = status
                \/ /\ status' = "error"
                   /\ last' = [last EXCEPT !.action = "prompt failed"]
                   /\ UNCHANGED <<expenses, frame>>
    /\ UNCHANGED <<data, pos, editor, Policy, edit_start, steps>>

\* the loop ends: nothing left to assign, no part left to pay, or the prompt cancelled;
\* the overflow is stored if it differs from the stored one
Receive_end ==
    /\ status = "assigning"
    /\ LET new_overflow == frame[1].this_value + frame[1].overflow
           changed == new_overflow # unwrap_or(expenses.overflows, 0)
       IN  /\ expenses' = IF changed
                          THEN [expenses EXCEPT !.overflows = Some(new_overflow)]
                          ELSE expenses
           /\ frame' = Some([frame[1] EXCEPT !.any_change = @ \/ changed])
           /\ last' = [last EXCEPT !.action = "store",
                                   !.ret = Some(frame[1].any_change \/ changed)]
    /\ status' = "received"
    /\ UNCHANGED <<data, pos, editor, Policy, edit_start, steps>>

NextReceive == Receive_begin \/ Receive_pay \/ Receive_end

SpecReceive == InitReceive /\ [][NextReceive]_vars

----------------------------------------------------------------------------
(* RecurringExpense::amount_in_interval.  A date is a day number; the       *)
(* calendar has months of 30 days and years of 12 months, so a cycle is a   *)
(* number of days.  expenses.recurring_expenses holds the expense the       *)
(* method is called on, as it was read from the stored file.                *)

MaxDate == 3
MaxCount == 2
MaxTotal == 12

\* RelativeDuration::from(&DateDelta): the length of the cycle
RelativeDuration_from(every) ==
    CASE every.unit = "Days" -> every.count
      [] every.unit = "Weeks" -> 7 * every.count
      [] every.unit = "Months" -> 30 * every.count
      [] every.unit = "Years" -> 360 * every.count

\* a stored recurring expense: serde checks the type of the count (u8), not its value
InitInterval ==
    /\ data = TableData_default
    /\ fixed_rows_number = 0
    /\ editable_columns = {}
    /\ editable_total_fields = {}
    /\ pos = Name
    /\ editor = Editor_default
    /\ edit_start = None
    /\ steps = 0
    /\ frame = None
    /\ status = "stored"
    /\ last = [action |-> "load", hook |-> <<>>, buffer |-> None,
               parse_failed |-> FALSE, ret |-> None, arg |-> None]
    /\ \E amount \in {0, 3}, date \in 0..MaxDate,
          unit \in {"Days", "Weeks", "Months", "Years"}, count \in 0..MaxCount,
          end_date \in {None} \cup {Some(d) : d \in 0..MaxDate} :
         expenses = [recurring_expenses |->
                       <<[amount |-> amount, date |-> date,
                          every |-> [unit |-> unit, count |-> count],
                          end_date |-> end_date]>>]

\* the method up to its first loop: the two early returns, then date = self.info.date
amount_in_interval_enter ==
    /\ status = "stored"
    /\ \E start \in 0..MaxDate, end \in 0..MaxDate :
         LET self == expenses.recurring_expenses[1]
             early == \/ self.date > end
                      \/ self.end_date # None /\ self.end_date[1] < start
         IN  /\ last' = [action |-> "amount_in_interval", hook |-> <<>>, buffer |-> None,
                         parse_failed |-> FALSE,
                         ret |-> IF early THEN Some(0) ELSE None,
                         arg |-> Some([start |-> start, end |-> end])]
             /\ status' = IF early THEN "returned" ELSE "while date < start"
             /\ frame' = IF early THEN frame
                         ELSE Some([start |-> start, end |-> end,
                                    cycle |-> RelativeDuration_from(self.every),
                                    date |-> self.date, total_amount |-> 0])
    /\ UNCHANGED <<data, pos, editor, Policy, edit_start, steps, expenses>>

\* while date < start { date = date + cycle }, and the return that follows it: the
\* test of the condition and the body are a step each
amount_in_interval_first_loop ==
    /\ \/ /\ status = "while date < start"
          /\ LET self == expenses.recurring_expenses[1]
                 date == frame[1].date
             IN  IF date < frame[1].start
                 THEN status' = "date = date + cycle" /\ last' = last
                 ELSE IF self.end_date # None /\ self.end_date[1] < date
                 THEN status' = "returned" /\ last' = [last EXCEPT !.ret = Some(0)]
                 ELSE status' = "while date <= end" /\ last' = last
          /\ frame' = frame
       \/ /\ status = "date = date + cycle"
          /\ frame' = Some([frame[1] EXCEPT !.date = @ + frame[1].cycle])
          /\ status' = "while date < start"
          /\ last' = last
    /\ UNCHANGED <<data, pos, editor, Policy, edit_start, steps, expenses>>

\* while date <= end { ... total_amount += self.amount; date = date + cycle }: the test
\* with the return inside it, and the body, whose sum panics when it leaves the range
\* of a Decimal
amount_in_interval_second_loop ==
    /\ \/ /\ status = "while date <= end"
          /\ LET self == expenses.recurring_expenses[1]
                 date == frame[1].date
             IN  IF date <= frame[1].end /\ ~(self.end_date # None /\ self.end_date[1] < date)
                 THEN status' = "total_amount += self.amount" /\ last' = last
                 ELSE /\ status' = "returned"
                      /\ last' = [last EXCEPT !.ret = Some(frame[1].total_amount)]
          /\ frame' = frame
       \/ /\ status = "total_amount += self.amount"
          /\ LET self == expenses.recurring_expenses[1]
             IN  IF frame[1].total_amount + self.amount > MaxTotal
                 THEN status' = "panicked" /\ frame' = frame
                 ELSE /\ frame' = Some([frame[1] EXCEPT
                                          !.total_amount = @ + self.amount,
                                          !.date = @ + frame[1].cycle])
                      /\ status' = "while date <= end"
          /\ last' = last
    /\ UNCHANGED <<data, pos, editor, Policy, edit_start, steps, expenses>>

NextInterval ==
    \/ amount_in_interval_enter
    \/ amount_in_interval_first_loop
    \/ amount_in_interval_second_loop

\* a call that has begun runs on: a step that can be taken is taken
SpecInterval == InitInterval /\ [][NextInterval]_vars /\ WF_vars(NextInterval)

----------------------------------------------------------------------------
(* Properties *)

\* a position that exists in a grid of d's dimensions
ValidPos(d, p) ==
    CASE p.kind = "Name" -> TRUE
      [] p.kind = "RowName" -> p.row < rows(d)
      [] p.kind = "Data" -> p.col < cols(d) /\ p.row < rows(d)
      [] p.kind = "TotalRow" -> p.col < cols(d)
      [] OTHER -> p.col < 3

\* the last handled action was a Commit, and whether its buffer failed to parse
CommitFailed == last.action = "StopEditing" /\ last.parse_failed
CommitDone == last.action = "StopEditing" /\ ~last.parse_failed

\* C1: after construction and after every sequence of add_row / remove_row calls
\* (any row argument) and of widget actions, the grid is rectangular:
\* len(cells) = rows * cols and len(total_row) = cols.
C1_Rectangular ==
    /\ Len(data.data) = rows(data) * cols(data)
    /\ Len(data.total_row) = cols(data)

\* the one-row, four-column grid after rows were added and a remove_row call was made
C1_Witness ==
    /\ last.action = "remove_row"
    /\ cols(data) = 4
    /\ rows(data) = 2

\* C2: after every sequence of actions the focus position is valid for the
\* current dimensions (RowName(r): r < rows; Data: col < cols, row < rows;
\* TotalRow(c): c < cols; Button(i): i < 3).
C2_FocusValid == ValidPos(data, pos)

\* C3: the widget is in the Editing state only on a position for which
\* is_editable holds; on a non-editable position it stays Navigating.
C3_EditingOnlyEditable == is_editing(editor) => is_editable(pos)

\* the grid d with the cell at p set to its zero value
Zeroed(d, p) ==
    [name |-> IF p.kind = "Name" THEN <<>> ELSE d.name,
     col_names |-> d.col_names,
     row_names |-> [i \in 1..Len(d.row_names) |->
                      IF p.kind = "RowName" /\ i = p.row + 1 THEN <<>> ELSE d.row_names[i]],
     data |-> [i \in 1..Len(d.data) |->
                 IF p.kind = "Data" /\ i = p.row * cols(d) + p.col + 1 THEN 0 ELSE d.data[i]],
     total_row |-> [i \in 1..Len(d.total_row) |->
                      IF p.kind = "TotalRow" /\ i = p.col + 1 THEN 0 ELSE d.total_row[i]]]

\* C4: Clear (TuiAction::Delete) sets the focused cell to its zero value when the
\* focused position is editable, and changes nothing in the grid when it is not
\* editable or is a Button.
C4_ClearRespectsPolicy ==
    [][last'.action = "Delete" =>
         data' = IF is_editable(pos) THEN Zeroed(data, pos) ELSE data]_vars

\* C5 as stated: after a Commit on an integer cell whose buffer fails to parse the
\* widget is still Editing and the buffer still holds the offending text.
C5_FailedCommitKeepsEditing ==
    CommitFailed => is_editing(editor) /\ editor.s = last.buffer

\* C5 as amended: after a Commit on an integer cell whose buffer fails to parse
\* the widget is back in Navigating and the edit buffer is gone.
C5_FailedCommitStopsEditing ==
    CommitFailed => ~is_editing(editor) /\ editor.s = None /\ status = "running"

\* a Commit of the unparsable buffer "x" on an integer cell
C5_Witness ==
    /\ CommitFailed
    /\ last.buffer = Some(<<"x">>)
    /\ pos.kind \in {"Data", "TotalRow"}

\* C6: a Commit whose buffer fails to parse writes nothing: the grid is what it
\* was when the edit started.
C6_FailedCommitWritesNothing ==
    CommitFailed => edit_start # None /\ data = edit_start[1].data

\* a failed Commit on the first data cell of the 2x2 grid, which still holds 100
C6_Witness ==
    /\ CommitFailed
    /\ pos = Data(0, 0)
    /\ rows(data) = 2
    /\ get(data, 0, 0) = Some(100)

\* C7: on_save is invoked only by a Commit that was committed: not by a Commit
\* whose buffer fails to parse, a Cancel, or any other action.
C7_HookOnlyAfterCommittedEdit == last.hook # <<>> => CommitDone

\* the grid d with the cell at p set from the committed buffer
Committed(d, p, buffer) ==
    [name |-> IF p.kind = "Name" THEN buffer ELSE d.name,
     col_names |-> d.col_names,
     row_names |-> [i \in 1..Len(d.row_names) |->
                      IF p.kind = "RowName" /\ i = p.row + 1 THEN buffer ELSE d.row_names[i]],
     data |-> [i \in 1..Len(d.data) |->
                 IF p.kind = "Data" /\ i = p.row * cols(d) + p.col + 1
                 THEN parse_value(buffer).value ELSE d.data[i]],
     total_row |-> [i \in 1..Len(d.total_row) |->
                      IF p.kind = "TotalRow" /\ i = p.col + 1
                      THEN parse_value(buffer).value ELSE d.total_row[i]]]

\* C8: a Commit whose buffer parses (or any Commit on a string cell) writes the
\* new value into exactly the focused cell, returns to Navigating and invokes
\* on_save exactly once, after the write, with the written grid and the edited
\* position; "9.00" is the amount 900.
C8_CommitWritesFocusedCell ==
    /\ parse_value(<<"9", ".", "0", "0">>) = [ok |-> TRUE, value |-> 900]
    /\ CommitDone =>
         /\ edit_start # None
         /\ pos = edit_start[1].pos
         /\ data = Committed(edit_start[1].data, pos, last.buffer[1])
         /\ ~is_editing(editor)
         /\ status = "running"
         /\ last.hook = <<[data |-> data, pos |-> pos]>>

\* Data{col:0,row:0} of the 2x2 grid edited from 100 to "9": the cell holds 900
\* and the hook got the written grid and that position
C8_Witness ==
    /\ CommitDone
    /\ pos = Data(0, 0)
    /\ last.buffer = Some(<<"9">>)
    /\ edit_start[1].data.data[1] = 100
    /\ data.data[1] = 900
    /\ last.hook = <<[data |-> data, pos |-> Data(0, 0)]>>

\* C9: Cancel returns to Navigating with grid, cursor and clipboard as they were
\* when the edit started, and on_save is not invoked.
C9_CancelRestores ==
    last.action = "CancelEditing" =>
        /\ ~is_editing(editor)
        /\ status = "running"
        /\ edit_start # None
        /\ data = edit_start[1].data
        /\ pos = edit_start[1].pos
        /\ editor.copy_buffer = edit_start[1].copy_buffer
        /\ last.hook = <<>>

\* a Cancel on a data cell after the buffer was seeded empty and a character typed,
\* with a value on the clipboard
C9_Witness ==
    /\ last.action = "CancelEditing"
    /\ pos.kind = "Data"
    /\ editor.cursor_position = 1
    /\ editor.copy_buffer # None

\* C10: ToBottom sets the cursor to Button(min(2, last_col)), last_col = cols - 1.
C10_ToBottom ==
    last.action = "ToBottom" => pos = Button(Min(2, cols(data) - 1))

\* the row above and the row below in the adjacency table, for every kind of position
AboveTable(d, p) ==
    CASE p = Name -> Name
      [] p.kind \in {"RowName", "Data"} /\ p.row = 0 -> Name
      [] p.kind \in {"RowName", "Data"} /\ p.row > 0 -> [p EXCEPT !.row = p.row - 1]
      [] p.kind = "TotalRow" -> Data(p.col, rows(d) - 1)
      [] p.kind = "Button" -> TotalRow(Min(p.col, cols(d) - 1))

BelowTable(d, p) ==
    CASE p = Name -> Data(0, 0)
      [] p.kind = "RowName" /\ p.row = rows(d) - 1 -> TotalRow(0)
      [] p.kind = "Data" /\ p.row = rows(d) - 1 -> TotalRow(p.col)
      [] p.kind \in {"RowName", "Data"} /\ p.row < rows(d) - 1 -> [p EXCEPT !.row = p.row + 1]
      [] p.kind = "TotalRow" -> Button(Min(p.col, 2))
      [] p.kind = "Button" -> p

\* C11: from every valid position of every grid, MoveUp puts the cursor on the position
\* the table gives for above and MoveDown on the position it gives for below
C11_VerticalAdjacency ==
    [][ValidPos(data, pos) =>
         /\ last'.action = "MoveUp" => pos' = AboveTable(data, pos)
         /\ last'.action = "MoveDown" => pos' = BelowTable(data, pos)]_vars

\* MoveUp has left the total row for the last data row, in the last of two columns
C11_Witness ==
    /\ last.action = "MoveUp"
    /\ cols(data) = 2
    /\ pos = Data(1, rows(data) - 1)

\* the neighbours to the left and to the right in the adjacency table
LeftTable(d, p) ==
    CASE p = Name \/ p.kind = "RowName" \/ p = TotalRow(0) \/ p = Button(0) -> p
      [] p.kind = "Data" /\ p.col = 0 -> RowName(p.row)
      [] OTHER -> [p EXCEPT !.col = p.col - 1]

RightTable(d, p) ==
    CASE p = Name \/ p = TotalRow(cols(d) - 1) \/ p = Button(2) -> p
      [] p.kind = "Data" /\ p.col = cols(d) - 1 -> p
      [] p.kind = "RowName" -> Data(0, p.row)
      [] OTHER -> [p EXCEPT !.col = p.col + 1]

\* C12: from every valid position of every grid, MoveLeft puts the cursor on the position
\* the table gives for left_of and MoveRight on the position it gives for right_of; from
\* Name, MoveRight stays and MoveDown goes to Data{0,0}
C12_HorizontalAdjacency ==
    [][ValidPos(data, pos) =>
         /\ last'.action = "MoveLeft" => pos' = LeftTable(data, pos)
         /\ last'.action = "MoveRight" => pos' = RightTable(data, pos)
         /\ pos = Name /\ last'.action = "MoveRight" => pos' = Name
         /\ pos = Name /\ last'.action = "MoveDown" => pos' = Data(0, 0)]_vars

\* MoveRight has been handled with the cursor on Name, in a grid with columns to the right
C12_Witness ==
    /\ last.action = "MoveRight"
    /\ cols(data) = 4
    /\ pos = Name

\* where the claim puts the cursor for ToStart and ToEnd
StartTable(d, p) ==
    CASE p = Name \/ p.kind = "RowName" -> p
      [] p.kind = "Data" -> RowName(p.row)
      [] p.kind = "TotalRow" -> TotalRow(0)
      [] p.kind = "Button" -> Button(0)

EndTable(d, p) ==
    CASE p = Name -> p
      [] p.kind \in {"RowName", "Data"} -> Data(cols(d) - 1, p.row)
      [] p.kind = "TotalRow" -> TotalRow(cols(d) - 1)
      [] p.kind = "Button" -> Button(2)

\* C13: ToTop puts the cursor on Name, ToStart on the first and ToEnd on the last position
\* of the cursor's structural row (Name stays), and none of the three changes the grid
C13_Jumps ==
    [][/\ last'.action = "ToTop" => pos' = Name
       /\ last'.action = "ToStart" => pos' = StartTable(data, pos)
       /\ last'.action = "ToEnd" => pos' = EndTable(data, pos)
       /\ last'.action \in {"ToTop", "ToStart", "ToEnd"} => data' = data]_vars

\* ToEnd has put the cursor on the last of four columns, in a data row
C13_Witness ==
    /\ last.action = "ToEnd"
    /\ cols(data) = 4
    /\ pos = Data(3, 0)

\* C14: remove_row(row) with row >= rows() or with rows() = 1 leaves labels, cells and
\* total_row as they were and does not panic; and no step (add_row or remove_row call,
\* RemoveRow action, 'Delete Last Row' button, or any other) takes a grid with a row to
\* a grid without one
C14_RemoveRowFloor ==
    [][/\ last'.action = "remove_row" /\ (last'.arg[1] >= rows(data) \/ rows(data) = 1)
            => data' = data /\ status' = "running"
       /\ rows(data) >= 1 => rows(data') >= 1]_vars

\* remove_row(0) has been called on the grid of one row and four columns
C14_Witness ==
    /\ last.action = "remove_row"
    /\ last.arg = Some(0)
    /\ cols(data) = 4
    /\ data.row_names = << <<"a">> >>

\* the row of d that row r of the grid comes from once row `row` of d is removed
RowBefore(r, row) == IF r < row THEN r ELSE r + 1

\* C15: remove_row(row) with rows() > 1 and row < rows() removes the label at index row
\* and the cells row*cols .. (row+1)*cols; every other row keeps its label and its cells,
\* the rows after the removed one one row up; total_row, the column labels and the name
\* stay as they were
C15_RemoveRowExact ==
    [][last'.action = "remove_row" /\ rows(data) > 1 /\ last'.arg[1] < rows(data) =>
         LET row == last'.arg[1] IN
         /\ rows(data') = rows(data) - 1
         /\ cols(data') = cols(data)
         /\ Len(data'.data) = Len(data.data) - cols(data)
         /\ \A r \in 0..(rows(data') - 1) :
              /\ data'.row_names[r + 1] = data.row_names[RowBefore(r, row) + 1]
              /\ \A c \in 0..(cols(data) - 1) :
                   data'.data[r * cols(data) + c + 1]
                     = data.data[RowBefore(r, row) * cols(data) + c + 1]
         /\ data'.total_row = data.total_row
         /\ data'.col_names = data.col_names
         /\ data'.name = data.name]_vars

\* remove_row(0) has removed the first of the two rows of the 2x2 grid
C15_Witness ==
    /\ last.action = "remove_row"
    /\ last.arg = Some(0)
    /\ data.row_names = << <<"b">> >>
    /\ data.data = <<300, 400>>
    /\ data.total_row = <<400, 600>>

\* C16: add_row(), the AddRow action and the 'Add Row' button append one empty label and
\* cols() zero cells; every label and cell there was keeps its value and its (col,row)
\* address, and total_row and the cursor stay as they were
C16_AddRowAppends ==
    [][\/ last'.action \in {"add_row", "AddRow"}
       \/ last'.action = "Select" /\ pos = Button(0)
       =>
       /\ rows(data') = rows(data) + 1
       /\ cols(data') = cols(data)
       /\ data'.row_names[rows(data) + 1] = <<>>
       /\ \A r \in 0..(rows(data) - 1) : data'.row_names[r + 1] = data.row_names[r + 1]
       /\ Len(data'.data) = Len(data.data) + cols(data)
       /\ \A c \in 0..(cols(data) - 1) :
            /\ data'.data[rows(data) * cols(data) + c + 1] = 0
            /\ \A r \in 0..(rows(data) - 1) :
                 data'.data[r * cols(data) + c + 1] = data.data[r * cols(data) + c + 1]
       /\ data'.total_row = data.total_row
       /\ pos' = pos]_vars

\* the 'Add Row' button has been activated on the 2x2 grid
C16_Witness ==
    /\ last.action = "Select"
    /\ pos = Button(0)
    /\ data.row_names = << <<"a">>, <<"b">>, <<>> >>
    /\ data.data = <<100, 200, 300, 400, 0, 0>>
    /\ data.total_row = <<400, 600>>

\* C17: TableData::new returns no grid exactly when col_names.len() * row_names.len()
\* differs from data.len(); a grid it returns has the name, the labels and the cells of
\* the call
C17_NewChecksDimensions ==
    last.action = "new" =>
      LET in == last.arg[1]
      IN  /\ (last.ret = None) <=> (Len(in.col_names) * Len(in.row_names) # Len(in.data))
          /\ last.ret # None =>
               /\ last.ret[1].name = in.name
               /\ last.ret[1].col_names = in.col_names
               /\ last.ret[1].row_names = in.row_names
               /\ last.ret[1].data = in.data

\* new has turned down five cells for two columns and two rows
C17_Witness ==
    /\ last.action = "new"
    /\ Len(last.arg[1].col_names) = 2
    /\ Len(last.arg[1].row_names) = 2
    /\ Len(last.arg[1].data) = 5
    /\ last.ret = None

RECURSIVE SumOfColumn(_, _, _, _)
\* cells[0*n + c] + ... + cells[(r-1)*n + c], the first r rows of column c of n columns
SumOfColumn(cells, n, c, r) ==
    IF r = 0 THEN 0 ELSE SumOfColumn(cells, n, c, r - 1) + cells[(r - 1) * n + c + 1]

\* C18: in a grid that TableData::new returns, total_row has one entry per column and
\* entry c is the sum of cells[r*cols + c] over all rows r
C18_TotalRowIsColumnSum ==
    last.action = "new" /\ last.ret # None =>
      LET d == last.ret[1]
      IN  /\ Len(d.total_row) = cols(d)
          /\ \A c \in 0..(cols(d) - 1) :
               d.total_row[c + 1] = SumOfColumn(last.arg[1].data, cols(d), c, rows(d))

\* new has built the grid of columns A, B, rows R1, R2 and cells 100, 200, 300, 400
C18_Witness ==
    /\ last.action = "new"
    /\ last.arg[1].col_names = << <<"A">>, <<"B">> >>
    /\ last.arg[1].row_names = << <<"R", "1">>, <<"R", "2">> >>
    /\ last.arg[1].data = <<100, 200, 300, 400>>
    /\ last.ret # None
    /\ last.ret[1].total_row = <<400, 600>>

\* C19: is_editable is TRUE for Name, row >= fixed_rows_number for RowName(row),
\* col in editable_columns for Data{col,row} whatever the row, col in
\* editable_total_fields for TotalRow(col), and FALSE for every Button
C19_IsEditable ==
    last.action = "is_editable" =>
      LET p == last.arg[1]
      IN  last.ret[1] = CASE p = Name -> TRUE
                          [] p.kind = "RowName" -> p.row >= fixed_rows_number
                          [] p.kind = "Data" -> p.col \in editable_columns
                          [] p.kind = "TotalRow" -> p.col \in editable_total_fields
                          [] p.kind = "Button" -> FALSE

\* is_editable has said yes for a data cell of an editable column in a fixed row
C19_Witness ==
    /\ last.action = "is_editable"
    /\ last.arg = Some(Data(1, 0))
    /\ fixed_rows_number = 2
    /\ editable_columns = {1}
    /\ last.ret = Some(TRUE)

\* the string cells and the integer cells, and what a cell holds
StringCell(p) == p.kind \in {"Name", "RowName"}
IntegerCell(p) == p.kind \in {"Data", "TotalRow"}

CellOf(d, p) ==
    CASE p.kind = "Name" -> d.name
      [] p.kind = "RowName" -> d.row_names[p.row + 1]
      [] p.kind = "Data" -> d.data[p.row * cols(d) + p.col + 1]
      [] p.kind = "TotalRow" -> d.total_row[p.col + 1]

\* the grid d with x in the cell at p and everything else as it is
WithCell(d, p, x) ==
    CASE p.kind = "Name" -> [d EXCEPT !.name = x]
      [] p.kind = "RowName" -> [d EXCEPT !.row_names[p.row + 1] = x]
      [] p.kind = "Data" -> [d EXCEPT !.data[p.row * cols(d) + p.col + 1] = x]
      [] p.kind = "TotalRow" -> [d EXCEPT !.total_row[p.col + 1] = x]

\* C20: Copy on a cell puts the cell's value and type on the clipboard; the clipboard
\* stays as it is while the cursor moves and cells are modified; Paste of a string value
\* on an integer cell, and of an integer value on a string cell, leaves the grid as it
\* is, and Paste on a cell of the value's type sets exactly that cell to the value
C20_ClipboardTypeSafe ==
    [][/\ last'.action = "Copy" /\ ValidPos(data, pos) /\ pos.kind # "Button" =>
            editor'.copy_buffer = Some(IF StringCell(pos) THEN StrValue(CellOf(data, pos))
                                       ELSE DataValue(CellOf(data, pos)))
       /\ last'.action \notin {"Copy", "Paste"} => editor'.copy_buffer = editor.copy_buffer
       /\ last'.action = "Paste" /\ editor.copy_buffer # None
            /\ ValidPos(data, pos) /\ pos.kind # "Button" =>
            LET v == editor.copy_buffer[1]
            IN  /\ v.tag = "Str" /\ IntegerCell(pos) => data' = data
                /\ v.tag = "Data" /\ StringCell(pos) => data' = data
                /\ v.tag = "Str" /\ StringCell(pos) => data' = WithCell(data, pos, v.str)
                /\ v.tag = "Data" /\ IntegerCell(pos) => data' = WithCell(data, pos, v.int)]_vars

\* the 100 copied from Data{0,0} has been pasted on Data{1,0} after the source was cleared
C20_Witness ==
    /\ last.action = "Paste"
    /\ pos = Data(1, 0)
    /\ data.data = <<0, 100, 300, 400>>

\* C21: a Paste with a filled clipboard on a cell of the other type, or on a Button,
\* leaves grid, cursor and clipboard as they were
C21_MismatchedPasteIsNoOp ==
    [][/\ last'.action = "Paste"
       /\ editor.copy_buffer # None
       /\ \/ pos.kind = "Button"
          \/ editor.copy_buffer[1].tag = "Str" /\ IntegerCell(pos)
          \/ editor.copy_buffer[1].tag = "Data" /\ StringCell(pos)
       => data' = data /\ pos' = pos /\ editor'.copy_buffer = editor.copy_buffer]_vars

\* C22: parse_value(format_value(v)) = v for every amount v that parses, the negative
\* ones included
C22_RoundTrip ==
    last.action = "format_value" => last.ret = [ok |-> TRUE, value |-> last.arg[1]]

\* the digits of the integer part of the text s, its sign set aside
IntegerDigits(s) ==
    DigitPrefix(IF s # <<>> /\ Head(s) \in {"-", "+"} THEN Tail(s) ELSE s)

\* the grammar read off the text s: an optional sign with integer digits, then
\* optionally one separator with up to two fractional digits, and nothing more
IntegerPart(s) ==
    IF IntegerDigits(s) = <<>> THEN 0
    ELSE IF Head(s) = "-" THEN -DigitsToNat(IntegerDigits(s))
    ELSE DigitsToNat(IntegerDigits(s))

AfterInteger(s) ==
    IF IntegerDigits(s) = <<>> THEN s
    ELSE IF Head(s) \in {"-", "+"} THEN SubSeq(s, Len(IntegerDigits(s)) + 2, Len(s))
    ELSE SubSeq(s, Len(IntegerDigits(s)) + 1, Len(s))

Separated(s) == AfterInteger(s) # <<>> /\ Head(AfterInteger(s)) \in {",", "."}

FractionDigits(s) == IF Separated(s) THEN DigitPrefix(Tail(AfterInteger(s))) ELSE <<>>

Fraction(s) ==
    LET fd == FractionDigits(s)
    IN  CASE Len(fd) = 0 -> 0
          [] Len(fd) = 1 -> DigitVal(fd[1]) * 10
          [] OTHER -> DigitVal(fd[1]) * 10 + DigitVal(fd[2])

\* s is of the grammar's form: at most two fractional digits and nothing after them
GrammarMatches(s) ==
    /\ Len(FractionDigits(s)) <= 2
    /\ Len(AfterInteger(s)) = (IF Separated(s) THEN 1 ELSE 0) + Len(FractionDigits(s))

\* C23: parse_value accepts exactly the texts of the grammar and returns
\* integer_part*100 + fraction for them (integer parts of up to 7 digits, which the
\* overflow guard lets through); "12.50" gives 1250, "3" gives 300, "1,5" gives 150,
\* "" gives 0 and "12.555" fails
C23_ParseGrammar ==
    last.action = "parse_value" =>
      LET s == last.arg[1]
      IN  /\ Len(IntegerDigits(s)) <= 7 =>
               /\ last.ret.ok = GrammarMatches(s)
               /\ last.ret.ok => last.ret.value = IntegerPart(s) * 100 + Fraction(s)
          /\ s = <<"1", "2", ".", "5", "0">> => last.ret = [ok |-> TRUE, value |-> 1250]
          /\ s = <<"3">> => last.ret = [ok |-> TRUE, value |-> 300]
          /\ s = <<"1", ",", "5">> => last.ret = [ok |-> TRUE, value |-> 150]
          /\ s = <<>> => last.ret = [ok |-> TRUE, value |-> 0]
          /\ s = <<"1", "2", ".", "5", "5", "5">> => ~last.ret.ok

\* parse_value has read "1,5" as 150
C23_Witness ==
    /\ last.action = "parse_value"
    /\ last.arg = Some(<<"1", ",", "5">>)
    /\ last.ret = [ok |-> TRUE, value |-> 150]

RECURSIVE StripZeros(_)
StripZeros(ds) == IF ds # <<>> /\ Head(ds) = "0" THEN StripZeros(Tail(ds)) ELSE ds

\* the integer part of s, times 100, lies outside the 32-bit signed range
TimesHundredOverflows(s) ==
    LET ds == StripZeros(IntegerDigits(s))
    IN  Len(ds) > 8 \/ (Len(ds) = 8 /\ DigitsToNat(ds) > I32_MAX \div 100)

\* C24: parse_value fails on every text whose integer part times 100 leaves the 32-bit
\* signed range, and for every text it accepts integer_part*100 + fraction lies within
\* the range and is the value returned
C24_OverflowGuard ==
    last.action = "parse_value" =>
      LET s == last.arg[1]
      IN  /\ TimesHundredOverflows(s) => ~last.ret.ok
          /\ last.ret.ok =>
               /\ ~TimesHundredOverflows(s)
               /\ IntegerPart(s) <= (I32_MAX - Fraction(s)) \div 100
               /\ last.ret.value = IntegerPart(s) * 100 + Fraction(s)

\* parse_value has accepted the largest integer part the guard lets through
C24_Witness ==
    /\ last.action = "parse_value"
    /\ last.arg = Some(<<"2", "1", "4", "7", "4", "8", "3", "5", ",", "9", "9">>)
    /\ last.ret = [ok |-> TRUE, value |-> I32_MAX - 48]

\* the text an edit of the cell at p starts from
CellText(d, p) == IF StringCell(p) THEN CellOf(d, p) ELSE format_value(CellOf(d, p))

\* C25: a step that starts an edit leaves the widget Editing with the cursor offset
\* at the number of characters of the buffer; Edit, EditStart and EditEnd seed the
\* buffer with the text of the focused cell, Replace and Select with the empty text
C25_StartEditSeedsBuffer ==
    [][~is_editing(editor) /\ is_editing(editor') =>
         /\ editor'.cursor_position = Len(editor'.s[1])
         /\ last'.action \in {"Edit", "EditStart", "EditEnd"} =>
              editor'.s[1] = CellText(data, pos')
         /\ last'.action \in {"Replace", "Select"} =>
              editor'.s[1] = <<>> /\ editor'.cursor_position = 0]_vars

\* the EditingActions, by the names the handled event is recorded under
EditingActions ==
    {"InsertChar", "DeleteLeft", "DeleteRight", "EditMoveLeft", "EditMoveRight",
     "CancelEditing", "StopEditing"}

\* C26: an editing action performed while no edit is going on leaves the editor (no
\* buffer, the cursor offset, the clipboard), the grid and the focus as they were and
\* does not call on_save
C26_IdleEditingActionsNoOp ==
    [][~is_editing(editor) /\ last'.action \in EditingActions =>
         /\ editor' = editor
         /\ data' = data
         /\ pos' = pos
         /\ status' = status
         /\ last'.hook = <<>>]_vars

\* InsertChar has been performed with no edit going on, the offset of an earlier edit
\* and a clipboard still in the editor
C26_Witness ==
    /\ last.action = "InsertChar"
    /\ editor.s = None
    /\ editor.cursor_position = 1
    /\ editor.copy_buffer # None

\* C27: while the widget is Editing only editing actions are handled, and InsertChar,
\* DeleteLeft, DeleteRight, MoveLeft and MoveRight leave the grid, the focus and the
\* clipboard as they were and the edit going on
C27_EditingTouchesBufferOnly ==
    [][is_editing(editor) =>
         /\ last'.action \in EditingActions
         /\ last'.action \in {"InsertChar", "DeleteLeft", "DeleteRight",
                              "EditMoveLeft", "EditMoveRight"} =>
              /\ data' = data
              /\ pos' = pos
              /\ editor'.copy_buffer = editor.copy_buffer
              /\ is_editing(editor')]_vars

\* a character has been typed into the emptied buffer of Data{0,0} and the grid still
\* holds the cell's 100
C27_Witness ==
    /\ last.action = "InsertChar"
    /\ editor.s = Some(<<"9">>)
    /\ pos = Data(0, 0)
    /\ data.data = <<100, 200, 300, 400>>

\* C28: whenever the widget is Editing the focus is on Name, a RowName, a Data cell or
\* a TotalRow field that has a value, never on a Button
C28_EditingOnlyOnValues ==
    is_editing(editor) =>
      /\ pos.kind \in {"Name", "RowName", "Data", "TotalRow"}
      /\ ValidPos(data, pos)

\* Replace has been handled with the focus on a button and no edit has begun
C28_Witness ==
    /\ last.action = "Replace"
    /\ pos = Button(1)
    /\ ~is_editing(editor)

\* C29: Select on Button(0) appends one row, on Button(1) removes the last row (nothing
\* when only one row remains), on Button(2) returns Exit and leaves the grid; in all
\* three cases the focus, the editor and the Navigating state stay as they were
C29_SelectOnButton ==
    [][last'.action = "Select" /\ pos.kind = "Button" /\ pos.col < 3 =>
         /\ pos' = pos
         /\ editor' = editor
         /\ ~is_editing(editor')
         /\ pos.col = 0 =>
              /\ data' = [data EXCEPT !.row_names = data.row_names \o << <<>> >>,
                                      !.data = data.data \o [i \in 1..cols(data) |-> 0]]
              /\ last'.ret = None
         /\ pos.col = 1 =>
              /\ rows(data) > 1 =>
                   data' = [data EXCEPT
                              !.row_names = SubSeq(data.row_names, 1, rows(data) - 1),
                              !.data = SubSeq(data.data, 1, Len(data.data) - cols(data))]
              /\ rows(data) = 1 => data' = data
              /\ last'.ret = None
         /\ pos.col = 2 => data' = data /\ last'.ret = Some("Exit")]_vars

\* 'Delete Last Row' has been activated and the grid of two columns has one row left
C29_Witness ==
    /\ last.action = "Select"
    /\ pos = Button(1)
    /\ data.row_names = << <<"a">> >>
    /\ data.data = <<100, 200>>

\* C30: the grid of a widget that the builder has built has at least one row and at
\* least one column, so that rows()-1 and cols()-1 do not underflow and Data{0,0},
\* the position below Name, exists
C30_BuiltGridNonEmpty ==
    status = "running" =>
      /\ rows(data) >= 1
      /\ cols(data) >= 1
      /\ get(data, 0, 0) # None

\* C31: a widget built from a builder on which no option was set has fixed_rows_number 0,
\* no editable columns and no editable total fields, and build() yields the focus Name,
\* no edit going on (Navigating) and an empty clipboard
C31_BuilderDefaults ==
    status = "running" =>
      /\ fixed_rows_number = 0
      /\ editable_columns = {}
      /\ editable_total_fields = {}
      /\ pos = Name
      /\ ~is_editing(editor)
      /\ editor.cursor_position = 0
      /\ editor.copy_buffer = None

\* build() has made a widget over a 2x2 grid that TableData::new returned
C31_Witness ==
    /\ status = "running"
    /\ last.action = "build"
    /\ cols(data) = 2
    /\ rows(data) = 2

\* the sum over the columns i < c of (width_i + 2)
RECURSIVE ColumnsBefore(_, _)
ColumnsBefore(widths, c) ==
    IF c = 0 THEN 0 ELSE ColumnsBefore(widths, c - 1) + widths[c] + 2

\* C32: the cursor that render sets during an edit is at row 0 for Name, row r+2 for
\* RowName(r) and Data{c,r} and row rows()+2 for TotalRow(c); at column 0 for Name and
\* RowName and at first_width + 2 + the sum over i < c of (width_i + 2) for Data{c,r} and
\* TotalRow(c), plus the cursor offset of the edit buffer
C32_CursorOffset ==
    last.action = "render" /\ is_editing(editor) =>
      LET fw == last.arg[1].first_width
          widths == last.arg[1].other_widths
          x == last.ret[1][1] - editor.cursor_position
          y == last.ret[1][2]
      IN  /\ last.ret # None
          /\ pos.kind = "Name" => x = 0 /\ y = 0
          /\ pos.kind = "RowName" => x = 0 /\ y = pos.row + 2
          /\ pos.kind = "Data" =>
               x = fw + 2 + ColumnsBefore(widths, pos.col) /\ y = pos.row + 2
          /\ pos.kind = "TotalRow" =>
               x = fw + 2 + ColumnsBefore(widths, pos.col) /\ y = rows(data) + 2

\* render has set the cursor of an edit of the total of the last of four columns
C32_Witness ==
    /\ last.action = "render"
    /\ is_editing(editor)
    /\ pos = TotalRow(3)
    /\ last.ret[1][2] = 3
    /\ last.ret[1][1] > 20

\* C33: the RemoveRow action on RowName(r) or Data{c,r} of a grid with more than one row
\* removes row r and no other, and leaves the cursor on the same kind and column at row
\* min(r, rows()-1), an existing row; on a grid of one row, and on Name, TotalRow or a
\* Button, it changes neither the grid nor the cursor
C33_RemoveRowAction ==
    [][last'.action = "RemoveRow" =>
         IF pos.kind \in {"RowName", "Data"} /\ rows(data) > 1
         THEN /\ rows(data') = rows(data) - 1
              /\ cols(data') = cols(data)
              /\ \A r \in 0..(rows(data') - 1) :
                   /\ data'.row_names[r + 1] = data.row_names[RowBefore(r, pos.row) + 1]
                   /\ \A c \in 0..(cols(data) - 1) :
                        data'.data[r * cols(data) + c + 1]
                          = data.data[RowBefore(r, pos.row) * cols(data) + c + 1]
              /\ pos'.kind = pos.kind
              /\ pos'.col = pos.col
              /\ pos'.row = Min(pos.row, rows(data') - 1)
              /\ ValidPos(data', pos')
         ELSE data' = data /\ pos' = pos]_vars

\* RemoveRow on the last cell of the second of two rows has left the cursor in the first
C33_Witness ==
    /\ last.action = "RemoveRow"
    /\ pos = Data(1, 0)
    /\ data.row_names = << <<"a">> >>
    /\ data.data = <<100, 200>>

\* C34: during an edit, after insert_char, delete_left, delete_right, move_left or
\* move_right, the cursor offset is at least 0 and at most the number of characters of
\* the buffer, whatever characters the buffer holds
C34_OffsetWithinBuffer ==
    /\ Editing
    /\ last.action \in {"InsertChar", "DeleteLeft", "DeleteRight", "EditMoveLeft",
                        "EditMoveRight"}
    => /\ 0 <= editor.cursor_position
       /\ editor.cursor_position <= Len(editor.s[1])

\* C35: an editing action acts on one character at the offset: InsertChar puts the typed
\* character at the offset and advances the offset by one; DeleteLeft with offset > 0
\* removes the character before the offset and decrements the offset; DeleteRight with
\* offset < length removes the character at the offset and keeps the offset; DeleteLeft
\* and MoveLeft at offset 0, and DeleteRight and MoveRight at offset = length, change
\* nothing (length counted in characters)
C35_OneCharacterAtOffset ==
    [][is_editing(editor) =>
         LET s == editor.s[1]
             o == editor.cursor_position
             n == Len(s)
             at == Min(o, n)
         IN  /\ last'.action = "InsertChar" =>
                  /\ editor'.cursor_position = o + 1
                  /\ \E c \in InsertChars :
                       editor'.s = Some(SubSeq(s, 1, at) \o <<c>> \o SubSeq(s, at + 1, n))
             /\ last'.action = "DeleteLeft" /\ o > 0 =>
                  /\ editor'.cursor_position = o - 1
                  /\ Len(editor'.s[1]) = n - 1
                  /\ editor'.s = Some(SubSeq(s, 1, at - 1) \o SubSeq(s, at + 1, n))
             /\ last'.action = "DeleteRight" /\ o < n =>
                  /\ editor'.cursor_position = o
                  /\ editor'.s = Some(SubSeq(s, 1, o) \o SubSeq(s, o + 2, n))
             /\ last'.action \in {"DeleteLeft", "EditMoveLeft"} /\ o = 0 =>
                  editor' = editor
             /\ last'.action \in {"DeleteRight", "EditMoveRight"} /\ o = n =>
                  editor' = editor]_vars

\* C36: for a text with a minus sign, integer digits and fractional digits parse_value
\* returns -(|integer part|*100 + fraction): "-1.50" gives -150 and "-0.5" gives -50
C36_SignOfWholeNumber ==
    last.action = "parse_value" =>
      LET s == last.arg[1]
      IN  /\ /\ s # <<>>
             /\ Head(s) = "-"
             /\ IntegerDigits(s) # <<>>
             /\ Len(IntegerDigits(s)) <= 7
             /\ FractionDigits(s) # <<>>
             /\ GrammarMatches(s)
             => last.ret = [ok |-> TRUE,
                            value |-> -(DigitsToNat(IntegerDigits(s)) * 100 + Fraction(s))]
          /\ s = <<"-", "1", ".", "5", "0">> => last.ret = [ok |-> TRUE, value |-> -150]
          /\ s = <<"-", "0", ".", "5">> => last.ret = [ok |-> TRUE, value |-> -50]

\* C37: a handled Paste that found a value on the clipboard leaves the clipboard empty,
\* whether or not the value went into a cell, and a Paste right after a Paste changes
\* neither grid, cursor nor editor
C37_PasteConsumesClipboard ==
    [][last'.action = "Paste" /\ status' = "running" =>
         /\ editor.copy_buffer # None => editor'.copy_buffer = None
         /\ last.action = "Paste" => data' = data /\ pos' = pos /\ editor' = editor]_vars

\* a copied cell has been pasted into its neighbour and the clipboard is empty
C37_Witness ==
    /\ last.action = "Paste"
    /\ status = "running"
    /\ pos = Data(1, 0)
    /\ data.data = <<100, 100, 300, 400>>
    /\ editor.copy_buffer = None

\* C38: no action that widget_action delivers while Navigating, Next and Prev included,
\* aborts the widget: perform_tui_action returns from every one of them
C38_NoActionAborts ==
    [][Navigating => status' # "panicked"]_vars

\* the sum over the parts of what the command added to their paid amounts
RECURSIVE SumOfIncreases(_, _)
SumOfIncreases(before, after) ==
    IF before = <<>> THEN 0
    ELSE unwrap_or(Head(after).paid, 0) - unwrap_or(Head(before).paid, 0)
         + SumOfIncreases(Tail(before), Tail(after))

\* C39: when Receive has ended its loop, for a received value and a stored overflow that
\* are not negative, the received value plus the old overflow equals the sum of the
\* increases of the paid amounts plus the overflow then stored for the person
C39_MoneyConserved ==
    status = "received" =>
      LET value == last.arg[1].value
          before == last.arg[1].before
      IN  value >= 0 /\ unwrap_or(before.overflows, 0) >= 0 =>
            value + unwrap_or(before.overflows, 0)
              = SumOfIncreases(before.group_expenses, expenses.group_expenses)
                + unwrap_or(expenses.overflows, 0)

\* 1 received and 2 of overflow have gone into a part of 5 and nothing is left over
C39_Witness ==
    /\ status = "received"
    /\ last.arg[1].value = 1
    /\ last.arg[1].before.overflows = Some(2)
    /\ last.arg[1].before.group_expenses = <<[to_pay |-> 5, paid |-> None]>>
    /\ expenses.group_expenses = <<[to_pay |-> 5, paid |-> Some(3)]>>
    /\ expenses.overflows = Some(0)

\* C40: every call of amount_in_interval(start, end) comes to an end, whatever the
\* stored expense (a cycle count of 0 included) and the two dates
C40_Terminates == <>(status \in {"returned", "panicked"})

====
